---- MODULE Spec2Model ----
(***************************************************************************)
(* AK8963 magnetometer driver (compass_ak8963.c): the queued-read tracker, *)
(* the poll-driven acquisition state machine of ak8963Read and ak8963Init  *)
(* of the SPI pass-through build (MPU6500_SPI_INSTANCE or                  *)
(* MPU9250_SPI_INSTANCE defined), the blocking ak8963Init and ak8963Read   *)
(* of the direct-bus build, and the vtx58 frequency table lookups.  Every  *)
(* call of a driver function is one atomic step (the firmware calls the    *)
(* driver from a single context).  The bytes and acks the bus returns are  *)
(* inputs chosen by the environment.                                       *)
(***************************************************************************)
EXTENDS Integers, Sequences, FiniteSets, TLC

VARIABLES
    inited,      \* ak8963Init has run (the compass subsystem calls it once, before any read)
    state,       \* static ak8963ReadState_e state of ak8963Read
    queuedRead,  \* static queuedReadState_t queuedRead: waiting, len, readStartedAt
    magGain,     \* static float magGain[3], held as the exact numerator over GainDen
    magData,     \* the caller's int16_t magData[3]
    now,         \* micros(): the free-running 32-bit microsecond clock, in clock units
    ticks,       \* number of clock advances so far (bounds the run)
    sinceStart,  \* history: completeRead calls since the last successful startRead (-1: none armed yet)
    last         \* history: what the most recent driver call did and returned

vars == <<inited, state, queuedRead, magGain, magData, now, ticks, sinceStart, last>>

----------------------------------------------------------------------------
(* Program constants.                                                      *)

AK8963_MAG_I2C_ADDRESS == 12
AK8963_MAG_REG_STATUS1 == 2
AK8963_MAG_REG_HXL == 3
AK8963_MAG_REG_STATUS2 == 9
AK8963_MAG_REG_CNTL1 == 10
AK8963_MAG_REG_ASAX == 16
READ_FLAG == 128
STATUS1_DATA_READY == 1
STATUS2_DATA_ERROR == 2
STATUS2_MAG_SENSOR_OVERFLOW == 3
CNTL1_MODE_POWER_DOWN == 0
CNTL1_MODE_ONCE == 1
CNTL1_MODE_FUSE_ROM == 15

CHECK_STATUS == 0
WAITING_FOR_STATUS == 1
WAITING_FOR_DATA == 2

\* Times are counted in clock units of UsPerUnit microseconds: the model checker's
\* integers are 32 bits wide and cannot hold 2^32.  The clock keeps its width: it
\* wraps at 2^32 microseconds, and int32_t holds less than 2^31 microseconds.
UsPerUnit == 2 * 2

\* the settle time of a proxied read (the literal 8000 of line 161)
SettleDelay == 8000 \div UsPerUnit

\* uint32_t wraps at Wrap32 clock units; int32_t holds -Int32Max-1 .. Int32Max
Wrap32 == (65536 \div UsPerUnit) * 65536
Int32Max == (Wrap32 \div 2) - 1

\* int16_t range
Int16Min == -32768
Int16Max == 32767

\* magGain values are multiples of 1/256 (the divisor of line 204, see
\* GainFromTrim); 1.0f is GainDen/GainDen
GainDen == 256

----------------------------------------------------------------------------
(* Bounds of the model.                                                    *)

\* clock advances allowed in one run
MaxTicks == 4
\* the scheduler's clock step between driver calls, in clock units (4 ms)
Step == 1000
\* sinceStart saturates here
MaxCount == 3

\* clock steps of the poll-driven specification: the scheduler polls at a high rate
SchedulerSteps == {Step, 2 * Step}
\* clock steps of the tracker harness: also stalls of about half the clock range
HarnessSteps == {Step, 2 * Step, Int32Max + 1 - Step, Int32Max + 1 + SettleDelay + Step}
\* the clock value at start-up: about to wrap, so that reads are armed on both
\* sides of the wrap
StartTimes == {Wrap32 - Step}

\* fuse-ROM trim triples the device may return (ASAX, ASAY, ASAZ)
TrimTriples == { <<0, 127, 255>>, <<128, 1, 64>> }

\* the six data bytes HXL..HZH the device may return; byte 1 doubles as STATUS1
\* when the queued read is the one-byte status read
DataBytes ==
    { <<16, 0, 32, 0, 48, 0>>,
      <<1, 0, 0, 128, 255, 127>>,
      <<255, 255, 232, 3, 24, 252>>,
      <<2, 0, 1, 0, 255, 255>> }
\* the STATUS2 bytes the device may return
Status2Bytes == {0, 1, 2, 8}
\* what a 7-byte transfer may deliver
RxBuffers == { d \o <<s2>> : d \in DataBytes, s2 \in Status2Bytes }
\* what a transfer of len bytes may deliver
Wire(len) == { SubSeq(b, 1, len) : b \in RxBuffers }
\* what the bytes of the uninitialised buf[7] of ak8963Read that a transfer of
\* len bytes leaves alone may hold
Junk(len) ==
    { [i \in 1..7 |-> IF i <= len THEN 0 ELSE b[i]] :
        b \in { <<1, 0, 1, 0, 1, 0, 0>>, <<0, 255, 0, 255, 0, 255, 2>> } }

----------------------------------------------------------------------------
(* Integer helpers.                                                        *)

RECURSIVE BitAnd(_, _)
BitAnd(a, b) ==
    IF a = 0 \/ b = 0 THEN 0
    ELSE (a % 2) * (b % 2) + 2 * BitAnd(a \div 2, b \div 2)

RECURSIVE BitOr(_, _)
BitOr(a, b) ==
    IF a = 0 THEN b
    ELSE IF b = 0 THEN a
    ELSE (IF a % 2 = 1 \/ b % 2 = 1 THEN 1 ELSE 0) + 2 * BitOr(a \div 2, b \div 2)

\* (int8_t)u, (int16_t)u, (int32_t)u of an unsigned value
ToInt8(u) == IF u % 256 >= 128 THEN (u % 256) - 256 ELSE u % 256
ToInt16(u) == IF u % 65536 >= 32768 THEN (u % 65536) - 65536 ELSE u % 65536
ToInt32(u) == IF u % Wrap32 > Int32Max THEN (u % Wrap32) - Wrap32 ELSE u % Wrap32

\* C division of the exact product: toward zero
TruncDiv(a, b) == IF a >= 0 THEN a \div b ELSE -((-a) \div b)

Max(a, b) == IF a >= b THEN a ELSE b
Min(a, b) == IF a <= b THEN a ELSE b

----------------------------------------------------------------------------
(* The SPI transport.  Each call appends to the log of the driver call:    *)
(* op "w" a register write, "r" a buffer read, "d" a blocking delay;       *)
(* pend is queuedRead.waiting at the moment of the operation.              *)

spiWriteRegisterDelay(reg, data, pend) ==
    << [op |-> "w", reg |-> reg, val |-> data, pend |-> pend] >>

spiBusReadRegisterBuffer(len, pend) ==
    << [op |-> "r", reg |-> "EXT_SENS_DATA_00", val |-> len, pend |-> pend] >>

delayMicroseconds(us, pend) ==
    << [op |-> "d", reg |-> "", val |-> us, pend |-> pend] >>

\* buf[] after a transfer of len bytes into the uninitialised uint8_t buf[7]:
\* the first len bytes come from the wire, the others keep whatever they held
FillBuffer(len, wire, junk) ==
    [i \in 1..7 |-> IF i <= len THEN wire[i] ELSE junk[i]]

\* ak8963SensorWrite: four register writes, then true
ak8963SensorWrite(addr, reg, data, pend) ==
    [ret |-> TRUE,
     cmds |-> spiWriteRegisterDelay("I2C_SLV0_ADDR", addr, pend)
              \o spiWriteRegisterDelay("I2C_SLV0_REG", reg, pend)
              \o spiWriteRegisterDelay("I2C_SLV0_DO", data, pend)
              \o spiWriteRegisterDelay("I2C_SLV0_CTRL", 129, pend)]

\* ak8963SensorRead (blocking): three register writes, delay(4), the buffer read;
\* it returns the transport's ack
ak8963SensorRead(addr, reg, len, ack, pend) ==
    [ret |-> ack,
     cmds |-> spiWriteRegisterDelay("I2C_SLV0_ADDR", BitOr(addr, READ_FLAG), pend)
              \o spiWriteRegisterDelay("I2C_SLV0_REG", reg, pend)
              \o spiWriteRegisterDelay("I2C_SLV0_CTRL", BitOr(len, 128), pend)
              \o delayMicroseconds(4000 \div UsPerUnit, pend)
              \o spiBusReadRegisterBuffer(len, pend)]

----------------------------------------------------------------------------
(* The queued-read tracker.                                                *)

\* ak8963SensorStartRead without the test of queuedRead.waiting
ak8963SensorStartRead_NoGuard(q, t, addr, reg, len) ==
    [ok |-> TRUE,
     q |-> [waiting |-> TRUE, len |-> len, readStartedAt |-> t],
     cmds |-> spiWriteRegisterDelay("I2C_SLV0_ADDR", BitOr(addr, READ_FLAG), q.waiting)
              \o spiWriteRegisterDelay("I2C_SLV0_REG", reg, q.waiting)
              \o spiWriteRegisterDelay("I2C_SLV0_CTRL", BitOr(len, 128), q.waiting)]

\* ak8963SensorStartRead with the tracker q at clock t: the return value, the
\* tracker afterwards and the transport commands issued
ak8963SensorStartRead(q, t, addr, reg, len) ==
    IF q.waiting
    THEN [ok |-> FALSE, q |-> q, cmds |-> << >>]
    ELSE [ok |-> TRUE,
          q |-> [waiting |-> TRUE, len |-> len, readStartedAt |-> t],
          cmds |-> spiWriteRegisterDelay("I2C_SLV0_ADDR", BitOr(addr, READ_FLAG), FALSE)
                   \o spiWriteRegisterDelay("I2C_SLV0_REG", reg, FALSE)
                   \o spiWriteRegisterDelay("I2C_SLV0_CTRL", BitOr(len, 128), FALSE)]

\* ak8963SensorQueuedReadTimeRemaining: the set of values the call may return.
\* timeSinceStarted is the int32_t of the wrapped difference; 8000 - timeSinceStarted
\* overflows int32_t when it exceeds Int32Max, which is undefined: a wrapping build
\* sees a negative number and returns 0, a build that folds the comparison returns
\* the wrapped difference as uint32_t.
ak8963SensorQueuedReadTimeRemaining(q, t) ==
    IF ~q.waiting THEN {0}
    ELSE LET timeSinceStarted == ToInt32((t - q.readStartedAt) % Wrap32)
             timeRemaining == SettleDelay - timeSinceStarted
         IN  IF timeRemaining > Int32Max THEN {0, timeRemaining % Wrap32}
             ELSE IF timeRemaining < 0 THEN {0}
             ELSE {timeRemaining}

\* ak8963SensorCompleteRead reading the buffer a second time
ak8963SensorCompleteRead_ReadTwice(q, tr) ==
    [ret |-> TRUE,
     q |-> [q EXCEPT !.waiting = FALSE],
     delay |-> tr,
     len |-> q.len,
     cmds |-> (IF tr > 0 THEN delayMicroseconds(tr, q.waiting) ELSE << >>)
              \o spiBusReadRegisterBuffer(q.len, FALSE)
              \o spiBusReadRegisterBuffer(q.len, FALSE)]

\* ak8963SensorCompleteRead, given the value tr its call of
\* ak8963SensorQueuedReadTimeRemaining returned: it blocks for tr, clears waiting,
\* reads queuedRead.len bytes and returns true whatever the transport answered
ak8963SensorCompleteRead(q, tr) ==
    [ret |-> TRUE,
     q |-> [q EXCEPT !.waiting = FALSE],
     delay |-> tr,
     len |-> q.len,
     cmds |-> (IF tr > 0 THEN delayMicroseconds(tr, q.waiting) ELSE << >>)
              \o spiBusReadRegisterBuffer(q.len, FALSE)]

----------------------------------------------------------------------------
(* Calibration and decoding.                                               *)

\* magGain[axis] = (((float)(int8_t)calibration[axis] - 128) / 256 + 1) * 30, as the
\* numerator over GainDen: every step is exact in float
GainFromTrim(c) == ((ToInt8(c) - 128) + 256) * 30

\* the conversion of a float to int16_t: its integral part when that fits, and
\* undefined otherwise (a build may wrap it or saturate it)
FloatToInt16(v) ==
    IF v >= Int16Min /\ v <= Int16Max THEN {v}
    ELSE {ToInt16(v % 65536), IF v > 0 THEN Int16Max ELSE Int16Min}

\* (int16_t)(hi << 8 | lo)
RawValue(lo, hi) == ToInt16(BitOr(hi * 256, lo))

\* the decoding with the byte pair taken high byte first
DecodeAxis_BigEndian(lo, hi, gain) ==
    FloatToInt16(TruncDiv((-RawValue(hi, lo)) * gain, GainDen))

\* magData[axis] = -(int16_t)(hi << 8 | lo) * magGain[axis]: the values the
\* assignment may store
DecodeAxis(lo, hi, gain) ==
    FloatToInt16(TruncDiv((-RawValue(lo, hi)) * gain, GainDen))

\* line 250 without the test of the DATA_READY bit
StatusNotReady_AckOnly(ack, status) == ~ack

\* line 250: the status read is unusable
StatusNotReady(ack, status) ==
    ~ack \/ BitAnd(status, STATUS1_DATA_READY) = 0

\* line 290: the sample is discarded
SampleInvalid(ack, status2) ==
    \/ ~ack
    \/ BitAnd(status2, STATUS2_DATA_ERROR) # 0
    \/ BitAnd(status2, STATUS2_MAG_SENSOR_OVERFLOW) # 0

\* lines 242 and 271 without the early return
MustWait_Never(tr) == FALSE

\* lines 242 and 271: if (timeRemaining) return false
MustWait(tr) == tr # 0

----------------------------------------------------------------------------
(* The record of a driver call.                                            *)

\* op: the function called; ret: its boolean result; tr: the value
\* ak8963SensorQueuedReadTimeRemaining returned to the caller (-1: not called);
\* prevTr: the value the previous call returned for the same pending read;
\* pre, entry, preData, at: queuedRead, state, magData and the clock when the
\* call began;
\* restarts: passes through the switch; starts, startFails, completes: calls of
\* startRead, of those the failed ones, calls of completeRead; delay: the
\* argument of the blocking wait of completeRead; ack: the transport's answer to
\* the buffer read; buf: the bytes of buf[] the call read; gap: sinceStart when
\* the call armed a read (-2: it armed none); rx: the answers of the blocking
\* transfers of the call, in order, each with its ack and the bytes it delivered
NoCall(op) ==
    [op |-> op, ret |-> FALSE, tr |-> -1, prevTr |-> -1, cmds |-> << >>,
     pre |-> queuedRead, entry |-> state, preData |-> magData, at |-> now,
     restarts |-> 0, starts |-> 0, startFails |-> 0, completes |-> 0,
     delay |-> 0, ack |-> TRUE, buf |-> << >>, gap |-> -2, rx |-> << >>]

\* sinceStart after one more completeRead
Completed(n) == IF n < 0 THEN n ELSE Min(n + 1, MaxCount)

\* the number of measure-once writes in a log, and whether one was issued with a
\* read pending
IsRearm(c) == c.op = "w" /\ c.reg = "I2C_SLV0_DO" /\ c.val = CNTL1_MODE_ONCE
Rearms(cmds) == Cardinality({i \in 1..Len(cmds) : IsRearm(cmds[i])})
RearmWhilePending(cmds) == \E i \in 1..Len(cmds) : IsRearm(cmds[i]) /\ cmds[i].pend

\* the positions of a log where a proxied read is set up (the slave address written
\* with READ_FLAG, lines 141 and 116), and where the buffer is read (lines 180, 121)
ReadSetups(cmds) ==
    {i \in 1..Len(cmds) : /\ cmds[i].op = "w"
                          /\ cmds[i].reg = "I2C_SLV0_ADDR"
                          /\ BitAnd(cmds[i].val, READ_FLAG) # 0}
BufferReads(cmds) == {i \in 1..Len(cmds) : cmds[i].op = "r"}

----------------------------------------------------------------------------
(* Initial state: the static initialisers of lines 88, 112 and 229.        *)

Init ==
    /\ inited = FALSE
    /\ state = CHECK_STATUS
    /\ queuedRead = [waiting |-> FALSE, len |-> 0, readStartedAt |-> 0]
    /\ magGain = <<GainDen, GainDen, GainDen>>
    /\ magData = <<0, 0, 0>>
    /\ now \in StartTimes
    /\ ticks = 0
    /\ sinceStart = -1
    /\ last = [op |-> "none", ret |-> FALSE, tr |-> -1, prevTr |-> -1, cmds |-> << >>,
               pre |-> [waiting |-> FALSE, len |-> 0, readStartedAt |-> 0],
               entry |-> CHECK_STATUS, preData |-> <<0, 0, 0>>, at |-> now,
               restarts |-> 0, starts |-> 0, startFails |-> 0, completes |-> 0,
               delay |-> 0, ack |-> TRUE, buf |-> << >>, gap |-> -2, rx |-> << >>]

----------------------------------------------------------------------------
(* ak8963Init.                                                             *)

\* an answer of a blocking transfer
Answer(ack, bytes) == [ack |-> ack, bytes |-> bytes]

\* the transport commands of ak8963Init with the measure-once write moved to the
\* front
InitCommands_ArmFirst(acks, p) ==
    ak8963SensorWrite(AK8963_MAG_I2C_ADDRESS, AK8963_MAG_REG_CNTL1, CNTL1_MODE_ONCE, p).cmds
    \o ak8963SensorWrite(AK8963_MAG_I2C_ADDRESS, AK8963_MAG_REG_CNTL1, CNTL1_MODE_POWER_DOWN, p).cmds
    \o ak8963SensorWrite(AK8963_MAG_I2C_ADDRESS, AK8963_MAG_REG_CNTL1, CNTL1_MODE_FUSE_ROM, p).cmds
    \o ak8963SensorRead(AK8963_MAG_I2C_ADDRESS, AK8963_MAG_REG_ASAX, 3, acks[1], p).cmds
    \o ak8963SensorWrite(AK8963_MAG_I2C_ADDRESS, AK8963_MAG_REG_CNTL1, CNTL1_MODE_POWER_DOWN, p).cmds
    \o ak8963SensorRead(AK8963_MAG_I2C_ADDRESS, AK8963_MAG_REG_STATUS1, 1, acks[2], p).cmds
    \o ak8963SensorRead(AK8963_MAG_I2C_ADDRESS, AK8963_MAG_REG_STATUS2, 1, acks[3], p).cmds

\* the transport commands of ak8963Init (lines 199, 200, 201, 207, 210, 211, 214),
\* given the acks of its three reads; no result of a call is looked at
InitCommands(acks, p) ==
    ak8963SensorWrite(AK8963_MAG_I2C_ADDRESS, AK8963_MAG_REG_CNTL1, CNTL1_MODE_POWER_DOWN, p).cmds
    \o ak8963SensorWrite(AK8963_MAG_I2C_ADDRESS, AK8963_MAG_REG_CNTL1, CNTL1_MODE_FUSE_ROM, p).cmds
    \o ak8963SensorRead(AK8963_MAG_I2C_ADDRESS, AK8963_MAG_REG_ASAX, 3, acks[1], p).cmds
    \o ak8963SensorWrite(AK8963_MAG_I2C_ADDRESS, AK8963_MAG_REG_CNTL1, CNTL1_MODE_POWER_DOWN, p).cmds
    \o ak8963SensorRead(AK8963_MAG_I2C_ADDRESS, AK8963_MAG_REG_STATUS1, 1, acks[2], p).cmds
    \o ak8963SensorRead(AK8963_MAG_I2C_ADDRESS, AK8963_MAG_REG_STATUS2, 1, acks[3], p).cmds
    \o ak8963SensorWrite(AK8963_MAG_I2C_ADDRESS, AK8963_MAG_REG_CNTL1, CNTL1_MODE_ONCE, p).cmds

\* ak8963Init reporting a transfer that was not acknowledged
InitResult_AllAcked(acks) == \A i \in DOMAIN acks : acks[i]

\* line 216: return true
InitResult(acks) == TRUE

\* calibration[] is uninitialised and filled by the trim read: whatever the
\* transport answered, it holds some three bytes
ak8963Init ==
    /\ ~inited
    /\ \E calibration \in TrimTriples, acks \in [1..3 -> BOOLEAN] :
        /\ magGain' = [i \in 1..3 |-> GainFromTrim(calibration[i])]
        /\ last' = [NoCall("init") EXCEPT
                      !.ret = InitResult(acks),
                      !.cmds = InitCommands(acks, queuedRead.waiting),
                      !.ack = acks[1], !.buf = calibration,
                      !.rx = <<Answer(acks[1], calibration), Answer(acks[2], << >>),
                               Answer(acks[3], << >>)>>]
    /\ inited' = TRUE
    /\ UNCHANGED <<state, queuedRead, magData, now, ticks, sinceStart>>

----------------------------------------------------------------------------
(* ak8963Read, SPI pass-through path.                                      *)

\* the clock and the tick count after a blocking wait of delay microseconds
Blocked(delay) ==
    /\ delay = 0 \/ ticks < MaxTicks
    /\ now' = (now + delay) % Wrap32
    /\ ticks' = IF delay = 0 THEN ticks ELSE ticks + 1

\* case CHECK_STATUS (lines 235-238) from tracker q at clock t: arm the status
\* read, ignore its result, state++, return false
CaseCheckStatus(q, t) ==
    LET r == ak8963SensorStartRead(q, t, AK8963_MAG_I2C_ADDRESS, AK8963_MAG_REG_STATUS1, 1)
    IN  [state |-> CHECK_STATUS + 1, q |-> r.q, ok |-> r.ok, cmds |-> r.cmds]

\* a poll that enters in CHECK_STATUS
ReadCheckStatus ==
    /\ inited
    /\ state = CHECK_STATUS
    /\ LET r == CaseCheckStatus(queuedRead, now)
       IN  /\ state' = r.state
           /\ queuedRead' = r.q
           /\ sinceStart' = IF r.ok THEN 0 ELSE sinceStart
           /\ last' = [NoCall("read") EXCEPT
                         !.cmds = r.cmds, !.restarts = 1, !.starts = 1,
                         !.startFails = IF r.ok THEN 0 ELSE 1,
                         !.gap = IF r.ok THEN sinceStart ELSE -2]
    /\ UNCHANGED <<inited, magGain, magData, now, ticks>>

\* a poll in WAITING_FOR_STATUS or WAITING_FOR_DATA that finds time remaining
\* (lines 241-244 and 270-273)
ReadTooEarly ==
    /\ inited
    /\ state \in {WAITING_FOR_STATUS, WAITING_FOR_DATA}
    /\ \E tr \in ak8963SensorQueuedReadTimeRemaining(queuedRead, now) :
        /\ MustWait(tr)
        /\ last' = [NoCall("read") EXCEPT !.tr = tr, !.restarts = 1]
    /\ UNCHANGED <<inited, state, queuedRead, magGain, magData, now, ticks, sinceStart>>

\* a poll in WAITING_FOR_STATUS that completes the status read (lines 246-266)
ReadWaitingForStatus ==
    /\ inited
    /\ state = WAITING_FOR_STATUS
    /\ \E tr \in ak8963SensorQueuedReadTimeRemaining(queuedRead, now),
          tr2 \in ak8963SensorQueuedReadTimeRemaining(queuedRead, now),
          wire \in Wire(queuedRead.len), junk \in Junk(queuedRead.len),
          busAck \in BOOLEAN :
        /\ ~MustWait(tr)
        /\ LET c == ak8963SensorCompleteRead(queuedRead, tr2)
               buf == FillBuffer(c.len, wire, junk)
               status == buf[1]
               t == (now + c.delay) % Wrap32
               done == Completed(sinceStart)
           IN  /\ Blocked(c.delay)
               /\ IF StatusNotReady(c.ret, status)
                  THEN \* state = CHECK_STATUS; retry is still true: goto restart
                       LET r == CaseCheckStatus(c.q, t)
                       IN  /\ state' = r.state
                           /\ queuedRead' = r.q
                           /\ sinceStart' = IF r.ok THEN 0 ELSE done
                           /\ last' = [NoCall("read") EXCEPT
                                         !.tr = tr, !.cmds = c.cmds \o r.cmds,
                                         !.restarts = 2, !.starts = 1,
                                         !.startFails = IF r.ok THEN 0 ELSE 1,
                                         !.completes = 1, !.delay = c.delay,
                                         !.ack = busAck, !.buf = <<status>>,
                                         !.gap = IF r.ok THEN done ELSE -2]
                  ELSE LET r == ak8963SensorStartRead(c.q, t, AK8963_MAG_I2C_ADDRESS,
                                                      AK8963_MAG_REG_HXL, 7)
                       IN  /\ state' = state + 1
                           /\ queuedRead' = r.q
                           /\ sinceStart' = IF r.ok THEN 0 ELSE done
                           /\ last' = [NoCall("read") EXCEPT
                                         !.tr = tr, !.cmds = c.cmds \o r.cmds,
                                         !.restarts = 1, !.starts = 1,
                                         !.startFails = IF r.ok THEN 0 ELSE 1,
                                         !.completes = 1, !.delay = c.delay,
                                         !.ack = busAck, !.buf = <<status>>,
                                         !.gap = IF r.ok THEN done ELSE -2]
    /\ UNCHANGED <<inited, magGain, magData>>

\* a poll in WAITING_FOR_DATA that completes the data read (lines 275-301)
ReadWaitingForData ==
    /\ inited
    /\ state = WAITING_FOR_DATA
    /\ \E tr \in ak8963SensorQueuedReadTimeRemaining(queuedRead, now),
          tr2 \in ak8963SensorQueuedReadTimeRemaining(queuedRead, now),
          wire \in Wire(queuedRead.len), junk \in Junk(queuedRead.len),
          busAck \in BOOLEAN :
        /\ ~MustWait(tr)
        /\ LET c == ak8963SensorCompleteRead(queuedRead, tr2)
               buf == FillBuffer(c.len, wire, junk)
               status2 == buf[7]
               seen == [NoCall("read") EXCEPT
                          !.tr = tr, !.cmds = c.cmds, !.restarts = 1, !.completes = 1,
                          !.delay = c.delay, !.ack = busAck, !.buf = buf]
           IN  /\ Blocked(c.delay)
               /\ queuedRead' = c.q
               /\ sinceStart' = Completed(sinceStart)
               /\ IF SampleInvalid(c.ret, status2)
                  THEN /\ last' = seen
                       /\ UNCHANGED <<state, magData>>
                  ELSE LET w == ak8963SensorWrite(AK8963_MAG_I2C_ADDRESS,
                                                  AK8963_MAG_REG_CNTL1, CNTL1_MODE_ONCE,
                                                  c.q.waiting)
                       IN  /\ \E x \in DecodeAxis(buf[1], buf[2], magGain[1]),
                                 y \in DecodeAxis(buf[3], buf[4], magGain[2]),
                                 z \in DecodeAxis(buf[5], buf[6], magGain[3]) :
                                magData' = <<x, y, z>>
                           /\ state' = CHECK_STATUS
                           /\ last' = [seen EXCEPT !.ret = w.ret, !.cmds = c.cmds \o w.cmds]
    /\ UNCHANGED <<inited, magGain>>

ak8963Read ==
    \/ ReadCheckStatus
    \/ ReadTooEarly
    \/ ReadWaitingForStatus
    \/ ReadWaitingForData

\* the clock advances between two driver calls
Tick ==
    /\ ticks < MaxTicks
    /\ \E d \in SchedulerSteps : now' = (now + d) % Wrap32
    /\ ticks' = ticks + 1
    /\ UNCHANGED <<inited, state, queuedRead, magGain, magData, sinceStart, last>>

Next ==
    \/ ak8963Init
    \/ ReadCheckStatus
    \/ ReadTooEarly
    \/ ReadWaitingForStatus
    \/ ReadWaitingForData
    \/ Tick

Spec == Init /\ [][Next]_vars

----------------------------------------------------------------------------
(* The queued-read tracker on its own: its three functions called in any   *)
(* order, as a unit test of the tracker would call them.                   *)

HarnessStartRead ==
    /\ \E len \in {1, 7} :
        LET r == ak8963SensorStartRead(queuedRead, now, AK8963_MAG_I2C_ADDRESS,
                                       AK8963_MAG_REG_HXL, len)
        IN  /\ queuedRead' = r.q
            /\ sinceStart' = IF r.ok THEN 0 ELSE sinceStart
            /\ last' = [NoCall("startRead") EXCEPT
                          !.ret = r.ok, !.cmds = r.cmds, !.starts = 1,
                          !.startFails = IF r.ok THEN 0 ELSE 1,
                          !.gap = IF r.ok THEN sinceStart ELSE -2]
    /\ UNCHANGED <<inited, state, magGain, magData, now, ticks>>

HarnessTimeRemaining ==
    /\ \E tr \in ak8963SensorQueuedReadTimeRemaining(queuedRead, now) :
        last' = [NoCall("timeRemaining") EXCEPT
                   !.tr = tr,
                   !.prevTr = IF last.op = "timeRemaining" THEN last.tr ELSE -1]
    /\ UNCHANGED <<inited, state, queuedRead, magGain, magData, now, ticks, sinceStart>>

HarnessCompleteRead ==
    /\ \E tr \in ak8963SensorQueuedReadTimeRemaining(queuedRead, now) :
        LET c == ak8963SensorCompleteRead(queuedRead, tr)
        IN  /\ Blocked(c.delay)
            /\ queuedRead' = c.q
            /\ sinceStart' = Completed(sinceStart)
            /\ last' = [NoCall("completeRead") EXCEPT
                          !.ret = c.ret, !.tr = tr, !.cmds = c.cmds, !.completes = 1,
                          !.delay = c.delay]
    /\ UNCHANGED <<inited, state, magGain, magData>>

\* the time since the pending read was armed, on the wrapping clock
Elapsed == (now - queuedRead.readStartedAt) % Wrap32

\* the clock advances; a pending read is not left alone for a whole clock period
HarnessTick ==
    /\ ticks < MaxTicks
    /\ \E d \in HarnessSteps :
        /\ queuedRead.waiting => Elapsed + d < Wrap32
        /\ now' = (now + d) % Wrap32
    /\ ticks' = ticks + 1
    /\ UNCHANGED <<inited, state, queuedRead, magGain, magData, sinceStart, last>>

NextTracker ==
    \/ HarnessStartRead
    \/ HarnessTimeRemaining
    \/ HarnessCompleteRead
    \/ HarnessTick

SpecTracker == Init /\ [][NextTracker]_vars

----------------------------------------------------------------------------
(* The direct-bus build (neither SPI instance defined, lines 184-192 and   *)
(* 279-287): ak8963SensorRead and ak8963SensorWrite are i2cRead and        *)
(* i2cWrite and return the bus's ack; there is no tracker and no state.    *)

i2cWrite(addr, reg, data) ==
    << [op |-> "i2cWrite", reg |-> reg, val |-> data, pend |-> FALSE] >>

i2cRead(addr, reg, len) ==
    << [op |-> "i2cRead", reg |-> reg, val |-> len, pend |-> FALSE] >>

\* a measure-once write on the direct bus
IsRearmDirect(c) ==
    c.op = "i2cWrite" /\ c.reg = AK8963_MAG_REG_CNTL1 /\ c.val = CNTL1_MODE_ONCE

\* lines 184-187 and 189-192
ak8963SensorReadDirect(addr, reg, len, ack) ==
    [ret |-> ack, cmds |-> i2cRead(addr, reg, len)]

ak8963SensorWriteDirect(addr, reg, data, ack) ==
    [ret |-> ack, cmds |-> i2cWrite(addr, reg, data)]

\* the bus commands of ak8963Init in the direct-bus build, given the acks of its
\* seven transfers
InitCommandsDirect(acks) ==
    ak8963SensorWriteDirect(AK8963_MAG_I2C_ADDRESS, AK8963_MAG_REG_CNTL1, CNTL1_MODE_POWER_DOWN, acks[1]).cmds
    \o ak8963SensorWriteDirect(AK8963_MAG_I2C_ADDRESS, AK8963_MAG_REG_CNTL1, CNTL1_MODE_FUSE_ROM, acks[2]).cmds
    \o ak8963SensorReadDirect(AK8963_MAG_I2C_ADDRESS, AK8963_MAG_REG_ASAX, 3, acks[3]).cmds
    \o ak8963SensorWriteDirect(AK8963_MAG_I2C_ADDRESS, AK8963_MAG_REG_CNTL1, CNTL1_MODE_POWER_DOWN, acks[4]).cmds
    \o ak8963SensorReadDirect(AK8963_MAG_I2C_ADDRESS, AK8963_MAG_REG_STATUS1, 1, acks[5]).cmds
    \o ak8963SensorReadDirect(AK8963_MAG_I2C_ADDRESS, AK8963_MAG_REG_STATUS2, 1, acks[6]).cmds
    \o ak8963SensorWriteDirect(AK8963_MAG_I2C_ADDRESS, AK8963_MAG_REG_CNTL1, CNTL1_MODE_ONCE, acks[7]).cmds

\* ak8963Init, direct-bus build
ak8963InitDirect ==
    /\ ~inited
    /\ \E calibration \in TrimTriples, acks \in [1..7 -> BOOLEAN] :
        /\ magGain' = [i \in 1..3 |-> GainFromTrim(calibration[i])]
        /\ last' = [NoCall("init") EXCEPT
                      !.ret = InitResult(acks),
                      !.cmds = InitCommandsDirect(acks),
                      !.ack = acks[3], !.buf = calibration,
                      !.rx = [i \in 1..7 |->
                                Answer(acks[i], IF i = 3 THEN calibration ELSE << >>)]]
    /\ inited' = TRUE
    /\ UNCHANGED <<state, queuedRead, magData, now, ticks, sinceStart>>

\* the status bytes the device may return to the one-byte status read
StatusBytes == { w[1] : w \in Wire(1) }

\* line 283: the status read is unusable
StatusNotReadyDirect(ack, status) ==
    ~ack \/ BitAnd(status, STATUS1_DATA_READY) = 0

\* What the polls of the pass-through build report for a measurement cycle in
\* which the transport gives the answers rx (rx[1] to the status read, rx[2] to the
\* seven-byte read) with the gains gain: the result of the poll that ends the cycle
\* and the values it may write (lines 246-250, 275, 289-301).
ProxiedCycle(rx, gain) ==
    LET s == ak8963SensorCompleteRead([waiting |-> TRUE, len |-> 1, readStartedAt |-> 0], 0)
        d == ak8963SensorCompleteRead([waiting |-> TRUE, len |-> 7, readStartedAt |-> 0], 0)
        w == ak8963SensorWrite(AK8963_MAG_I2C_ADDRESS, AK8963_MAG_REG_CNTL1,
                               CNTL1_MODE_ONCE, FALSE)
    IN  IF StatusNotReady(s.ret, rx[1].bytes[1]) THEN [ret |-> FALSE, data |-> {}]
        ELSE IF SampleInvalid(d.ret, rx[2].bytes[7]) THEN [ret |-> FALSE, data |-> {}]
        ELSE [ret |-> w.ret,
              data |-> { <<x, y, z>> :
                           x \in DecodeAxis(rx[2].bytes[1], rx[2].bytes[2], gain[1]),
                           y \in DecodeAxis(rx[2].bytes[3], rx[2].bytes[4], gain[2]),
                           z \in DecodeAxis(rx[2].bytes[5], rx[2].bytes[6], gain[3]) }]

\* ak8963Read, direct-bus build (lines 221-222, 279-301): one blocking call reads
\* the status byte, then the seven bytes, and writes measure-once; its result is
\* the ack of that write.  A transfer that is not acknowledged leaves in buf[]
\* whatever it held.
ak8963ReadDirect ==
    /\ inited
    /\ \E ackStatus \in BOOLEAN, status \in StatusBytes,
          ackData \in BOOLEAN, wire \in Wire(7), junk \in Junk(0),
          ackWrite \in BOOLEAN :
        LET s == ak8963SensorReadDirect(AK8963_MAG_I2C_ADDRESS, AK8963_MAG_REG_STATUS1, 1, ackStatus)
            d == ak8963SensorReadDirect(AK8963_MAG_I2C_ADDRESS, AK8963_MAG_REG_HXL, 7, ackData)
            w == ak8963SensorWriteDirect(AK8963_MAG_I2C_ADDRESS, AK8963_MAG_REG_CNTL1,
                                         CNTL1_MODE_ONCE, ackWrite)
            buf == IF d.ret THEN FillBuffer(7, wire, junk)
                   ELSE [FillBuffer(0, wire, junk) EXCEPT ![1] = status]
            status2 == buf[7]
        IN  IF StatusNotReadyDirect(s.ret, status)
            THEN /\ last' = [NoCall("read") EXCEPT
                               !.cmds = s.cmds, !.ack = s.ret, !.buf = <<status>>,
                               !.rx = <<Answer(s.ret, <<status>>)>>]
                 /\ UNCHANGED magData
            ELSE IF SampleInvalid(d.ret, status2)
            THEN /\ last' = [NoCall("read") EXCEPT
                               !.cmds = s.cmds \o d.cmds, !.ack = d.ret, !.buf = buf,
                               !.rx = <<Answer(s.ret, <<status>>), Answer(d.ret, buf)>>]
                 /\ UNCHANGED magData
            ELSE /\ \E x \in DecodeAxis(buf[1], buf[2], magGain[1]),
                       y \in DecodeAxis(buf[3], buf[4], magGain[2]),
                       z \in DecodeAxis(buf[5], buf[6], magGain[3]) :
                      magData' = <<x, y, z>>
                 /\ last' = [NoCall("read") EXCEPT
                               !.ret = w.ret,
                               !.cmds = s.cmds \o d.cmds \o w.cmds,
                               !.ack = d.ret, !.buf = buf,
                               !.rx = <<Answer(s.ret, <<status>>), Answer(d.ret, buf),
                                        Answer(w.ret, << >>)>>]
    /\ UNCHANGED <<inited, state, queuedRead, magGain, now, ticks, sinceStart>>

NextDirect ==
    \/ ak8963InitDirect
    \/ ak8963ReadDirect

SpecDirect == Init /\ [][NextDirect]_vars

----------------------------------------------------------------------------
(* The 5.8 GHz video-transmitter frequency table (vtx58) and its two       *)
(* lookups.  They are pure functions of their arguments, so a behaviour of *)
(* their specification is one lookup with any arguments; `last` is the     *)
(* record of it: its arguments, its return value and what it stored        *)
(* through its pointers.                                                   *)

VTX_STRING_BAND_COUNT == 2
VTX_STRING_CHAN_COUNT == 8

\* the band range of the comment at line 75
DocumentedBandMax == 5

vtx58frequencyTable ==
    << <<5658, 5695, 5732, 5769, 5806, 5843, 5880, 5917>>,
       <<5362, 5399, 5436, 5473, 5510, 5547, 5584, 5621>> >>

\* every uint8_t and every uint16_t value
Uint8 == 0..255
Uint16 == 0..65535

\* vtx58frequencyTable[band][channel] with C's indices, from 0: inside the array
\* the element; outside it the read is undefined and may yield any value
TableRead(band, channel) ==
    IF band \in 0..(VTX_STRING_BAND_COUNT - 1) /\ channel \in 0..(VTX_STRING_CHAN_COUNT - 1)
    THEN [oob |-> FALSE, vals |-> {vtx58frequencyTable[band + 1][channel + 1]}]
    ELSE [oob |-> TRUE, vals |-> {0, 5658, 65535}]

\* the two loops of lines 58-66 from the position (band, channel) on
RECURSIVE Freq2BandchanFrom(_, _, _)
Freq2BandchanFrom(freq, band, channel) ==
    IF band < 0
    THEN [ret |-> FALSE, band |-> 0, channel |-> 0]
    ELSE IF channel >= VTX_STRING_CHAN_COUNT
    THEN Freq2BandchanFrom(freq, band - 1, 0)
    ELSE IF TableRead(band, channel).vals = {freq}
    THEN [ret |-> TRUE, band |-> (band + 1) % 256, channel |-> (channel + 1) % 256]
    ELSE Freq2BandchanFrom(freq, band, channel + 1)

\* vtx58_Freq2Bandchan storing the loop indices as they are
vtx58_Freq2Bandchan_ZeroBased(freq) ==
    LET r == Freq2BandchanFrom(freq, VTX_STRING_BAND_COUNT - 1, 0)
    IN  IF r.ret THEN [r EXCEPT !.band = r.band - 1, !.channel = r.channel - 1] ELSE r

\* vtx58_Freq2Bandchan: the return value, *pBand and *pChannel
vtx58_Freq2Bandchan(freq) ==
    Freq2BandchanFrom(freq, VTX_STRING_BAND_COUNT - 1, 0)

\* vtx58_Bandchan2Freq: the values it may return, and whether it read outside the
\* table
vtx58_Bandchan2Freq(band, channel) ==
    IF band > 0 /\ band <= VTX_STRING_BAND_COUNT /\ channel > 0 /\ channel <= VTX_STRING_CHAN_COUNT
    THEN LET e == TableRead(band - 1, channel - 1)
         IN  { [freq |-> f, oob |-> e.oob] : f \in e.vals }
    ELSE { [freq |-> 0, oob |-> FALSE] }

\* the record of a lookup
Lookup(op, freq, band, channel, ret, oob) ==
    [op |-> op, freq |-> freq, band |-> band, channel |-> channel, ret |-> ret, oob |-> oob]

InitVtx ==
    /\ inited = FALSE
    /\ state = CHECK_STATUS
    /\ queuedRead = [waiting |-> FALSE, len |-> 0, readStartedAt |-> 0]
    /\ magGain = <<GainDen, GainDen, GainDen>>
    /\ magData = <<0, 0, 0>>
    /\ now = 0
    /\ ticks = 0
    /\ sinceStart = -1
    /\ last = Lookup("none", 0, 0, 0, FALSE, FALSE)

\* a call vtx58_Freq2Bandchan(freq, &band, &channel)
CallFreq2Bandchan ==
    /\ last.op = "none"
    /\ \E freq \in Uint16 :
        LET r == vtx58_Freq2Bandchan(freq)
        IN  last' = Lookup("Freq2Bandchan", freq, r.band, r.channel, r.ret, FALSE)
    /\ UNCHANGED <<inited, state, queuedRead, magGain, magData, now, ticks, sinceStart>>

\* a call vtx58_Bandchan2Freq(band, channel)
CallBandchan2Freq ==
    /\ last.op = "none"
    /\ \E band \in Uint8, channel \in Uint8 :
        \E r \in vtx58_Bandchan2Freq(band, channel) :
            last' = Lookup("Bandchan2Freq", r.freq, band, channel, TRUE, r.oob)
    /\ UNCHANGED <<inited, state, queuedRead, magGain, magData, now, ticks, sinceStart>>

NextVtx ==
    \/ CallFreq2Bandchan
    \/ CallBandchan2Freq

SpecVtx == InitVtx /\ [][NextVtx]_vars

----------------------------------------------------------------------------
(* Properties.  A property about "a call" is stated on the record of the   *)
(* most recent call, which holds the state the call began in.              *)

\* the most recent call was a poll that completed the 7-byte data read
DataReadCompleted ==
    last.op = "read" /\ last.entry = WAITING_FOR_DATA /\ last.completes = 1

\* the most recent call was a poll that completed the 1-byte status read
StatusReadCompleted ==
    last.op = "read" /\ last.entry = WAITING_FOR_STATUS /\ last.completes = 1

\* STATUS2 of the completed data read has the data-error or the sensor-overflow bit
Status2Bad ==
    \/ BitAnd(last.buf[7], STATUS2_DATA_ERROR) # 0
    \/ BitAnd(last.buf[7], STATUS2_MAG_SENSOR_OVERFLOW) # 0

\* the little-endian signed 16-bit value of axis a (1..3) of the completed data read
RawOf(a) ==
    LET u == last.buf[2 * a - 1] + 256 * last.buf[2 * a]
    IN  IF u >= 32768 THEN u - 65536 ELSE u

\* C1: ak8963SensorStartRead called while queuedRead.waiting is true returns
\* false, leaves readStartedAt, len and waiting as they were and issues no
\* transport command; so the second of two startRead calls with no completeRead
\* between them fails.
C1_StartReadWhilePending ==
    (last.op = "startRead" /\ last.pre.waiting) =>
        /\ last.ret = FALSE
        /\ queuedRead = last.pre
        /\ last.cmds = << >>

\* C1 witness: startRead was called with a read pending that was armed at an
\* earlier clock value, and it failed.
C1_Witness ==
    /\ last.op = "startRead"
    /\ last.pre.waiting
    /\ last.at # last.pre.readStartedAt
    /\ last.ret = FALSE

\* C2: a poll in WAITING_FOR_DATA that completes the 7-byte read and discards the
\* sample (status2 error or overflow bit, or a read that was not acknowledged)
\* issues exactly one measure-once write and leaves the state CHECK_STATUS.
C2_DiscardRearmsAndResets ==
    (DataReadCompleted /\ (Status2Bad \/ ~last.ack)) =>
        /\ Rearms(last.cmds) = 1
        /\ state = CHECK_STATUS

\* C3 as stated: for every completed data read without error bits in status2 the
\* poll reports new data and SampleOutput[axis] = -(rawValue) * gain[axis] for
\* every raw value, also when the product does not fit 16 bits.
C3_ExactProduct ==
    (DataReadCompleted /\ ~Status2Bad) =>
        /\ last.ret
        /\ \A a \in 1..3 : magData[a] * GainDen = (-RawOf(a)) * magGain[a]

\* C3 amended: for every completed data read without error bits in status2 the
\* poll reports new data and, for each axis whose product -(rawValue) * gain[axis],
\* truncated toward zero, lies in -32768..32767, SampleOutput[axis] is that
\* truncated product.
C3_TruncatedProductInRange ==
    (DataReadCompleted /\ ~Status2Bad) =>
        /\ last.ret
        /\ \A a \in 1..3 :
            LET p == (-RawOf(a)) * magGain[a]
                v == IF p >= 0 THEN p \div GainDen ELSE -((-p) \div GainDen)
            IN  (v >= Int16Min /\ v <= Int16Max) => magData[a] = v

\* C3 witness: a reported sample with a product that is not a whole number, and a
\* non-zero output on another axis.
C3_Witness ==
    /\ DataReadCompleted /\ ~Status2Bad /\ last.ret
    /\ \E a \in 1..3 : ((-RawOf(a)) * magGain[a]) % GainDen # 0 /\ magData[a] # 0
    /\ \E a \in 1..3 : RawOf(a) < 0 /\ magData[a] > 0

\* C4: no measure-once write is issued while a queued read is pending, and a poll
\* issues exactly one measure-once write if it completed the 7-byte read in
\* WAITING_FOR_DATA and none otherwise.
C4_RearmOncePerCycle ==
    /\ ~RearmWhilePending(last.cmds)
    /\ last.op = "read" =>
        Rearms(last.cmds) = (IF DataReadCompleted THEN 1 ELSE 0)

\* C5: between polls the state changes only CHECK_STATUS -> WAITING_FOR_STATUS,
\* WAITING_FOR_STATUS -> WAITING_FOR_DATA (only after a status byte with DATA_READY
\* set) and WAITING_FOR_DATA -> CHECK_STATUS; the reset to CHECK_STATUS with the
\* inline re-issue happens only from WAITING_FOR_STATUS on a status byte without
\* DATA_READY, and ends in WAITING_FOR_STATUS.
C5_TransitionsInOrder ==
    [][ /\ state' # state =>
            \/ state = CHECK_STATUS /\ state' = WAITING_FOR_STATUS
            \/ /\ state = WAITING_FOR_STATUS /\ state' = WAITING_FOR_DATA
               /\ last'.completes = 1
               /\ last'.buf[1] % 2 = 1
            \/ state = WAITING_FOR_DATA /\ state' = CHECK_STATUS
        /\ (last'.op = "read" /\ last'.restarts = 2) =>
            /\ last'.entry = WAITING_FOR_STATUS
            /\ last'.buf[1] % 2 = 0
            /\ state' = WAITING_FOR_STATUS
      ]_vars

\* C5 witness: a whole cycle has run and ended in CHECK_STATUS with new data, its
\* data read armed after the clock wrapped.
C5_Witness ==
    /\ DataReadCompleted /\ last.ret /\ state = CHECK_STATUS
    /\ last.pre.readStartedAt < Step * MaxTicks * 2

\* C6: a poll reports new data only if the transport acknowledged the buffer read
\* and status2 has neither the data-error nor the sensor-overflow bit.
C6_NewDataOnlyIfAckedAndClean ==
    (last.op = "read" /\ last.ret) => (last.ack /\ ~Status2Bad)

\* C7: ak8963SensorQueuedReadTimeRemaining returns max(0, 8000 - (now -
\* readStartedAt)) when a read is pending and 0 otherwise, on the wrapping 32-bit
\* clock; a later call during the same pending read never returns more than an
\* earlier one.
C7_TimeRemainingFormula ==
    last.op = "timeRemaining" =>
        /\ last.tr = (IF last.pre.waiting
                      THEN Max(0, SettleDelay
                                  - ((last.at - last.pre.readStartedAt) % Wrap32))
                      ELSE 0)
        /\ (last.pre.waiting /\ last.prevTr # -1) => last.tr <= last.prevTr

\* C8: after a poll that discards a sample or sees DATA_READY unset the sensor has
\* been re-armed (a measure-once write) or re-queried (a new read is queued), so
\* that a later poll can return new data.
C8_RearmedOrRequeried ==
    \/ ~(last.op = "read" /\ last.completes = 1)
    \/ last.ret
    \/ last.entry = WAITING_FOR_STATUS /\ last.buf[1] % 2 = 1
    \/ Rearms(last.cmds) >= 1
    \/ queuedRead.waiting

\* C9: the blocking wait inside ak8963SensorCompleteRead never gets more than the
\* settle delay, and a poll calls completeRead only after timeRemaining returned 0.
C9_BoundedBlocking ==
    last.op = "read" =>
        /\ last.delay <= SettleDelay
        /\ last.completes > 0 => last.tr = 0

\* C9 witness: a poll completed a read that was armed exactly one settle delay
\* earlier.
C9_Witness ==
    /\ last.op = "read" /\ last.completes = 1
    /\ (last.at - last.pre.readStartedAt) % Wrap32 = SettleDelay

\* C10: every startRead issued by a poll succeeds, a poll enters CHECK_STATUS only
\* with no read pending, and between two successful startRead calls there is
\* exactly one completeRead.
C10_OneCompletePerStart ==
    last.op = "read" =>
        /\ last.startFails = 0
        /\ last.entry = CHECK_STATUS => ~last.pre.waiting
        /\ last.gap >= 0 => last.gap = 1


\* C11: driven by the same sensor responses (status1 byte, six data bytes, status2
\* byte, transport acks) with the same gains, the direct-bus read reports a
\* measurement cycle as new data if and only if the pass-through polls do, and the
\* values written are the same.
C11_VariantsAgree ==
    (last.op = "read" /\ last.rx # << >> /\ last.rx[1].ack) =>
        LET p == ProxiedCycle(last.rx, magGain)
        IN  /\ last.ret = p.ret
            /\ last.ret => magData \in p.data

\* C12: ak8963Init returns true whatever each of its transport writes and reads
\* answered (ack or nack), and its last device command is the measure-once write.
C12_InitAlwaysTrueAndArms ==
    last.op = "init" =>
        LET n == Len(last.cmds)
        IN  /\ last.ret
            /\ n > 1
            /\ \/ IsRearmDirect(last.cmds[n])
               \/ /\ IsRearm(last.cmds[n - 1])
                  /\ last.cmds[n].op = "w" /\ last.cmds[n].reg = "I2C_SLV0_CTRL"

\* C12 witness: ak8963Init has run with none of its seven bus transfers
\* acknowledged, and returned true.
C12_Witness ==
    /\ last.op = "init" /\ last.ret
    /\ Len(last.rx) = 7
    /\ \A i \in 1..7 : ~last.rx[i].ack

\* C13: for every band in 1..VTX_STRING_BAND_COUNT and channel in 1..8,
\* vtx58_Freq2Bandchan of vtx58_Bandchan2Freq(band, channel) returns true with that
\* band and channel; for every 16-bit freq, if vtx58_Freq2Bandchan returns true then
\* vtx58_Bandchan2Freq of the pair it stored is freq, and otherwise it stored band 0
\* and channel 0.
C13_RoundTrip ==
    /\ (/\ last.op = "Bandchan2Freq"
        /\ last.band \in 1..VTX_STRING_BAND_COUNT
        /\ last.channel \in 1..VTX_STRING_CHAN_COUNT) =>
            vtx58_Freq2Bandchan(last.freq) =
                [ret |-> TRUE, band |-> last.band, channel |-> last.channel]
    /\ last.op = "Freq2Bandchan" =>
            IF last.ret
            THEN vtx58_Bandchan2Freq(last.band, last.channel) =
                     { [freq |-> last.freq, oob |-> FALSE] }
            ELSE last.band = 0 /\ last.channel = 0

\* C13 witness: a frequency of the second table row was found, at a channel other
\* than the first.
C13_Witness ==
    /\ last.op = "Freq2Bandchan" /\ last.ret
    /\ last.band = VTX_STRING_BAND_COUNT /\ last.channel > 1
    /\ last.freq = vtx58frequencyTable[last.band][last.channel]

\* C14 as stated: vtx58_Bandchan2Freq returns a table frequency for every band in
\* 1..5 and channel in 1..8, returns 0 exactly when band or channel is outside those
\* ranges, and never reads outside the table.
C14_DocumentedRange ==
    last.op = "Bandchan2Freq" =>
        /\ ~last.oob
        /\ IF last.band \in 1..DocumentedBandMax /\ last.channel \in 1..VTX_STRING_CHAN_COUNT
           THEN \E b \in 1..VTX_STRING_BAND_COUNT, c \in 1..VTX_STRING_CHAN_COUNT :
                    last.freq = vtx58frequencyTable[b][c]
           ELSE last.freq = 0

\* C15: a poll in WAITING_FOR_STATUS that completes the status read and finds
\* DATA_READY unset returns no data, issues no measure-once write, goes through
\* the switch a second time (once) and there arms one new 1-byte status read: it
\* leaves the state a CHECK_STATUS poll leaves, WAITING_FOR_STATUS with that read
\* pending.
C15_NotReadyRetriesOnce ==
    (StatusReadCompleted /\ BitAnd(last.buf[1], STATUS1_DATA_READY) = 0) =>
        /\ ~last.ret
        /\ magData = last.preData
        /\ Rearms(last.cmds) = 0
        /\ last.restarts = 2
        /\ last.starts = 1 /\ last.startFails = 0
        /\ Cardinality(ReadSetups(last.cmds)) = 1
        /\ state = CHECK_STATUS + 1
        /\ queuedRead = [waiting |-> TRUE, len |-> 1,
                         readStartedAt |-> (last.at + last.delay) % Wrap32]

\* C15 witness: a status byte with DATA_READY unset and other bits set was read
\* and the status read was armed again.
C15_Witness ==
    /\ StatusReadCompleted
    /\ last.buf[1] # 0 /\ BitAnd(last.buf[1], STATUS1_DATA_READY) = 0
    /\ last.restarts = 2
    /\ queuedRead.waiting

\* C16: a poll in WAITING_FOR_STATUS or WAITING_FOR_DATA that gets a time
\* remaining above 0 returns no data and changes nothing: state, queuedRead and
\* magData are as before and no transport command is issued.
C16_TooEarlyChangesNothing ==
    (last.op = "read" /\ last.entry \in {WAITING_FOR_STATUS, WAITING_FOR_DATA}
                     /\ last.tr > 0) =>
        /\ ~last.ret
        /\ state = last.entry
        /\ queuedRead = last.pre
        /\ magData = last.preData
        /\ last.cmds = << >>

\* C16 witness: a poll in WAITING_FOR_DATA came when part of the settle delay was
\* left, with a sample already in magData.
C16_Witness ==
    /\ last.op = "read" /\ last.entry = WAITING_FOR_DATA
    /\ last.tr > 0 /\ last.tr < SettleDelay
    /\ magData # <<0, 0, 0>>

\* C17: within one poll the switch is entered at most twice, and at most one
\* ak8963SensorStartRead and one ak8963SensorCompleteRead are executed: at most one
\* read is set up and at most one buffer read is issued.
C17_BoundedWork ==
    last.op = "read" =>
        /\ last.restarts <= 2
        /\ last.starts <= 1
        /\ last.completes <= 1
        /\ Cardinality(ReadSetups(last.cmds)) <= 1
        /\ Cardinality(BufferReads(last.cmds)) <= 1

\* C17 witness: a poll went through the switch twice, completed a read and
\* started one.
C17_Witness ==
    /\ last.op = "read" /\ last.restarts = 2
    /\ Cardinality(ReadSetups(last.cmds)) = 1
    /\ Cardinality(BufferReads(last.cmds)) = 1

\* C18: the modes ak8963Init writes are, in this order, power-down, fuse-ROM
\* access, power-down, measure-once; the 3-byte trim read of ASAX lies between the
\* fuse-ROM write and the second power-down write, so no measure-once write comes
\* before it; nothing follows the measure-once write; the tracker and the state
\* are not changed.
C18_InitOrder ==
    last.op = "init" =>
        LET cmds == last.cmds
            n == Len(cmds)
            IsMode(c) == c.op = "w" /\ c.reg = "I2C_SLV0_DO"
            modes == SelectSeq(cmds, IsMode)
            ModeAt(k) == CHOOSE i \in 1..n :
                            /\ IsMode(cmds[i])
                            /\ Cardinality({j \in 1..i : IsMode(cmds[j])}) = k
            trim == {i \in BufferReads(cmds) : cmds[i].val = 3}
        IN  /\ [k \in 1..Len(modes) |-> modes[k].val] =
                   <<CNTL1_MODE_POWER_DOWN, CNTL1_MODE_FUSE_ROM,
                     CNTL1_MODE_POWER_DOWN, CNTL1_MODE_ONCE>>
            /\ Cardinality(trim) = 1
            /\ \A i \in trim :
                   /\ ModeAt(2) < i /\ i < ModeAt(3)
                   /\ \E j \in ModeAt(2)..i : /\ cmds[j].reg = "I2C_SLV0_REG"
                                             /\ cmds[j].val = AK8963_MAG_REG_ASAX
            /\ \A i \in BufferReads(cmds) \cup ReadSetups(cmds) : i < ModeAt(4)
            /\ ModeAt(4) = n - 1
            /\ queuedRead = last.pre
            /\ state = last.entry

\* C18 witness: ak8963Init has run and the trim read delivered the triple with
\* the largest third byte.
C18_Witness ==
    /\ last.op = "init"
    /\ Len(last.cmds) > 0 /\ last.cmds[1].op = "w"
    /\ last.buf \in TrimTriples /\ \A t \in TrimTriples : t[3] <= last.buf[3]

\* C19: between polls queuedRead.waiting is true exactly in WAITING_FOR_STATUS and
\* WAITING_FOR_DATA, with len 1 in WAITING_FOR_STATUS and len 7 in
\* WAITING_FOR_DATA, and no poll calls ak8963SensorCompleteRead with no read
\* pending.
C19_TrackerMatchesState ==
    /\ queuedRead.waiting <=> state \in {WAITING_FOR_STATUS, WAITING_FOR_DATA}
    /\ state = WAITING_FOR_STATUS => queuedRead.len = 1
    /\ state = WAITING_FOR_DATA => queuedRead.len = 7
    /\ (last.op = "read" /\ last.completes > 0) => last.pre.waiting

\* C20: a call of ak8963Read that returns false leaves magData as it was, in the
\* pass-through build and in the direct-bus build.
C20_FalseLeavesDataUnchanged ==
    (last.op = "read" /\ ~last.ret) => magData = last.preData

====
